---- MODULE Spec2Model ----
(***************************************************************************)
(* Model of the geometry-aware transforms of                               *)
(* mindocr/data/transforms/general_transforms.py:                          *)
(*   RandomCropWithBBox (__call__, _find_crop, hand_bounds) and            *)
(*   ScalePadImage.__call__.                                               *)
(*                                                                         *)
(* A record `data` is the Python dict threaded through the transforms.     *)
(* Its field `keys` is the set of keys the dict holds.  An image is its    *)
(* shape <<h, w>>.  Coordinates are exact rationals: every vertex of       *)
(* data.polys is a pair of integer numerators over the common denominator  *)
(* data.den (the inputs are given in half pixels, den = 2), and a scale    *)
(* factor is a pair <<num, den>>.  Floating point is abstracted to exact   *)
(* rational arithmetic.  Polygons are axis-aligned rectangles, each        *)
(* carrying the index `id` it had in the input; the text of instance i is  *)
(* the number i.                                                           *)
(***************************************************************************)
EXTENDS Integers, Sequences, FiniteSets

VARIABLES data,           \* the record being transformed (the dict `data`)
          input,          \* the record as it was passed in (never changes)
          pc,             \* position inside the running __call__
          err,            \* the exception that ended the call, or "none"
          start,          \* crop window start <<y0, x0>> (_find_crop's result)
          end,            \* crop window end   <<y1, x1>>
          is_out_bounds,  \* _find_crop's third result
          ret,            \* which return statement of _find_crop was taken
          tries,          \* iterations of the search loop executed so far
          y,              \* last sorted height draw <<y0, y1>>
          x,              \* last sorted width draw  <<x0, x1>>
          scale,          \* the uniform scale factor <<num, den>>
          repaired,       \* hand_bounds has run
          new_size,       \* ScalePadImage's new_size <<h, w>>
          target_size     \* ScalePadImage's _target_size <<H, W>>

vars == <<data, input, pc, err, start, end, is_out_bounds, ret, tries, y, x,
          scale, repaired, new_size, target_size>>

(* ------------------------------ bounds -------------------------------- *)
MaxSize == 4

MaxPolys == 2

MaxTries == 2

CropH == 8

CropW == 8

MaxTarget == 4

(* ------------------------- program constants -------------------------- *)
RatioNum == 1

RatioDen == 10

ThreshArea == 8

AllKeys == {"image", "polys", "texts", "ignore_tags"}

(* --------------------------- arithmetic ------------------------------- *)
Min2(a, b) == IF a <= b THEN a ELSE b

Max2(a, b) == IF a >= b THEN a ELSE b

SetMin(S) == CHOOSE m \in S : \A n \in S : m <= n

SetMax(S) == CHOOSE m \in S : \A n \in S : m >= n

\* Round p/q (q > 0) to the nearest integer, ties to the even one.
Round(p, q) ==
    LET f == p \div q
        r == p % q
    IN  IF 2 * r < q THEN f
        ELSE IF 2 * r > q THEN f + 1
        ELSE IF f % 2 = 0 THEN f ELSE f + 1

\* The least integer >= p/q (q > 0).
Ceil(p, q) == -((-p) \div q)

(* ---------------------------- polygons -------------------------------- *)
Rect(xs, ys) == << <<xs[1], ys[1]>>, <<xs[2], ys[1]>>,
                   <<xs[2], ys[2]>>, <<xs[1], ys[2]>> >>

\* poly.min(axis=0)[ax] and poly.max(axis=0)[ax]; ax = 1 is x, ax = 2 is y.
PolyMin(pts, ax) == SetMin({pts[i][ax] : i \in DOMAIN pts})

PolyMax(pts, ax) == SetMax({pts[i][ax] : i \in DOMAIN pts})

RECURSIVE Pick(_, _, _)
\* The subsequence of s at the indices in keep, in order, from index i on.
Pick(s, keep, i) ==
    IF i > Len(s) THEN <<>>
    ELSE (IF i \in keep THEN <<s[i]>> ELSE <<>>) \o Pick(s, keep, i + 1)

\* zip(a, b) stops at the shorter sequence.
ZipLen(a, b) == Min2(Len(a), Len(b))

(* -------------------- RandomCropWithBBox._find_crop ------------------- *)
\* polys = [poly for poly, ignore in zip(polys, ignore_tags) if not ignore]
NonIgnored(d) ==
    Pick(d.polys,
         {i \in 1..ZipLen(d.polys, d.ignore_tags) : ~d.ignore_tags[i]}, 1)

\* points = np.maximum(np.round(poly).astype(np.int32), 0), one coordinate
ClampRound(c, den) == Max2(Round(c, den), 0)

XMin(pts, den) == SetMin({ClampRound(pts[i][1], den) : i \in DOMAIN pts})

XMax(pts, den) == SetMax({ClampRound(pts[i][1], den) : i \in DOMAIN pts}) + 1

YMin(pts, den) == SetMin({ClampRound(pts[i][2], den) : i \in DOMAIN pts})

YMax(pts, den) == SetMax({ClampRound(pts[i][2], den) : i \in DOMAIN pts}) + 1

\* x_min < 0 or y_min < 0 or x_max > size[1] or y_max > size[0]
OutOfBounds(pts, den, size) ==
    \/ XMin(pts, den) < 0
    \/ YMin(pts, den) < 0
    \/ XMax(pts, den) > size[2]
    \/ YMax(pts, den) > size[1]

\* The indices of h_array / w_array set to 1 by the marking loop.
HArray(polys, den, size) ==
    {i \in 0..(size[1] - 1) :
        \E k \in DOMAIN polys :
            YMin(polys[k].pts, den) <= i /\ i < YMax(polys[k].pts, den)}

WArray(polys, den, size) ==
    {i \in 0..(size[2] - 1) :
        \E k \in DOMAIN polys :
            XMin(polys[k].pts, den) <= i /\ i < XMax(polys[k].pts, den)}

AvailAll(arr, n) == 0..(n - 1)

\* np.where(arr == 0)[0]
Avail(arr, n) == {i \in 0..(n - 1) : i \notin arr}

SearchPossibleAnyPolys(polys, den, size) ==
    /\ HArray(polys, den, size) # 0..(size[1] - 1)
    /\ WArray(polys, den, size) # 0..(size[2] - 1)

SearchPossibleHeightOnly(polys, den, size) ==
    /\ polys # <<>>
    /\ HArray(polys, den, size) # 0..(size[1] - 1)

\* if polys: ... if not h_array.all() and not w_array.all():
SearchPossible(polys, den, size) ==
    /\ polys # <<>>
    /\ HArray(polys, den, size) # 0..(size[1] - 1)
    /\ WArray(polys, den, size) # 0..(size[2] - 1)

\* min_size = np.ceil(size * self._ratio), one axis
MinSize(n) == Ceil(n * RatioNum, RatioDen)

Unsorted2(a, b) == <<a, b>>

\* np.sort of the two drawn indices
Sort2(a, b) == IF a <= b THEN <<a, b>> ELSE <<b, a>>

\* (poly.max(axis=0) > s).all() and (poly.min(axis=0) < e).all(),
\* s and e in <<x, y>> order and in pixels, the polygon over den.
Overlaps(pts, den, s, e) ==
    /\ PolyMax(pts, 1) > s[1] * den
    /\ PolyMax(pts, 2) > s[2] * den
    /\ PolyMin(pts, 1) < e[1] * den
    /\ PolyMin(pts, 2) < e[2] * den

Rev(p) == <<p[2], p[1]>>

\* The first key of `wanted` (in order) that the dict lacks, or "none".
MissingKey(d, wanted) ==
    IF \A i \in DOMAIN wanted : wanted[i] \in d.keys THEN "none"
    ELSE wanted[SetMin({i \in DOMAIN wanted : wanted[i] \notin d.keys})]

FindCropKeys == <<"image", "polys", "ignore_tags">>

Raise(k) ==
    /\ pc' = "error"
    /\ err' = k

\* data['image'], data['polys'] or data['ignore_tags'] raises KeyError.
FindCropKeyError ==
    /\ pc = "start"
    /\ MissingKey(data, FindCropKeys) # "none"
    /\ Raise("KeyError")
    /\ UNCHANGED <<data, input, start, end, is_out_bounds, ret, tries, y, x,
                   scale, repaired, new_size, target_size>>

\* The marking loop meets a non-ignored polygon that is out of bounds.
FindCropOutOfBounds ==
    /\ pc = "start"
    /\ MissingKey(data, FindCropKeys) = "none"
    /\ LET polys == NonIgnored(data)
       IN  \E k \in DOMAIN polys : OutOfBounds(polys[k].pts, data.den, data.image)
    /\ start' = <<0, 0>>
    /\ end' = data.image
    /\ is_out_bounds' = TRUE
    /\ ret' = "out_of_bounds"
    /\ pc' = "crop"
    /\ UNCHANGED <<data, input, err, tries, y, x, scale, repaired, new_size,
                   target_size>>

\* Free bands exist on both axes: the search loop is entered.
FindCropEnterSearch ==
    /\ pc = "start"
    /\ MissingKey(data, FindCropKeys) = "none"
    /\ LET polys == NonIgnored(data)
       IN  /\ \A k \in DOMAIN polys :
                  ~OutOfBounds(polys[k].pts, data.den, data.image)
           /\ SearchPossible(polys, data.den, data.image)
    /\ pc' = "search"
    /\ UNCHANGED <<data, input, err, start, end, is_out_bounds, ret, tries, y,
                   x, scale, repaired, new_size, target_size>>

\* All polygons ignored, or an axis without a free band: the last return.
FindCropNoSearch ==
    /\ pc = "start"
    /\ MissingKey(data, FindCropKeys) = "none"
    /\ LET polys == NonIgnored(data)
       IN  /\ \A k \in DOMAIN polys :
                  ~OutOfBounds(polys[k].pts, data.den, data.image)
           /\ ~SearchPossible(polys, data.den, data.image)
    /\ start' = <<0, 0>>
    /\ end' = data.image
    /\ ret' = "fallback"
    /\ pc' = "crop"
    /\ UNCHANGED <<data, input, err, is_out_bounds, tries, y, x, scale,
                   repaired, new_size, target_size>>

\* Lines 321-323 of one iteration of `for _ in range(self._max_tries)`:
\* two indices per axis are drawn (np.random.choice draws with replacement)
\* and sorted.
DrawCandidate ==
    /\ pc = "search"
    /\ tries < MaxTries
    /\ LET polys == NonIgnored(data)
           size == data.image
           h_avail == Avail(HArray(polys, data.den, size), size[1])
           w_avail == Avail(WArray(polys, data.den, size), size[2])
       IN  \E ya, yb \in h_avail, xa, xb \in w_avail :
              /\ y' = Sort2(ya, yb)
              /\ x' = Sort2(xa, xb)
    /\ tries' = tries + 1
    /\ pc' = "drawn"
    /\ UNCHANGED <<data, input, err, start, end, is_out_bounds, ret, scale,
                   repaired, new_size, target_size>>

\* Lines 323-331: the candidate is dropped when it is too small or holds no
\* polygon, and returned otherwise.  y and x are dead at the head of the
\* loop; they are cleared there.
TestCandidate ==
    /\ pc = "drawn"
    /\ LET polys == NonIgnored(data)
           size == data.image
           s == <<y[1], x[1]>>
           e == <<y[2], x[2]>>
       IN  IF \/ e[1] - s[1] < MinSize(size[1])
              \/ e[2] - s[2] < MinSize(size[2])
           THEN /\ pc' = "search"
                /\ y' = <<0, 0>>
                /\ x' = <<0, 0>>
                /\ UNCHANGED <<start, end, ret>>
           ELSE IF \E k \in DOMAIN polys :
                       Overlaps(polys[k].pts, data.den, Rev(s), Rev(e))
                THEN /\ start' = s
                     /\ end' = e
                     /\ ret' = "found"
                     /\ pc' = "crop"
                     /\ UNCHANGED <<y, x>>
                ELSE /\ pc' = "search"
                     /\ y' = <<0, 0>>
                     /\ x' = <<0, 0>>
                     /\ UNCHANGED <<start, end, ret>>
    /\ UNCHANGED <<data, input, err, is_out_bounds, tries, scale, repaired,
                   new_size, target_size>>

\* The loop ran max_tries times without returning: the last return.
SearchExhausted ==
    /\ pc = "search"
    /\ tries = MaxTries
    /\ start' = <<0, 0>>
    /\ end' = data.image
    /\ ret' = "fallback"
    /\ pc' = "crop"
    /\ UNCHANGED <<data, input, err, is_out_bounds, tries, y, x, scale,
                   repaired, new_size, target_size>>

(* -------------------- RandomCropWithBBox.__call__ --------------------- *)
CropScaleMax(win) ==
    IF CropH * win[2] >= CropW * win[1] THEN <<CropH, win[1]>>
                                         ELSE <<CropW, win[2]>>

\* scale = min(self._crop_size / (end - start)), win = end - start = <<h, w>>
CropScale(win) ==
    IF CropH * win[2] <= CropW * win[1] THEN <<CropH, win[1]>>
                                         ELSE <<CropW, win[2]>>

\* cv2.resize(..., None, fx=scale, fy=scale): the size is rounded per axis.
Resized(win, sc) == <<Round(win[1] * sc[1], sc[2]), Round(win[2] * sc[1], sc[2])>>

\* (poly - start) * scale, the result over the denominator den * sc[2]
MovePoly(poly, den, s, sc) ==
    [poly EXCEPT !.pts = [i \in DOMAIN poly.pts |->
        <<(poly.pts[i][1] - s[1] * den) * sc[1],
          (poly.pts[i][2] - s[2] * den) * sc[1]>>]]

\* The indices the filter loop keeps.
Kept(d, s, e) ==
    {i \in 1..Len(d.polys) : Overlaps(d.polys[i].pts, d.den, s, e)}

\* Lines 240-254: resize the crop, keep and move the polygons in the window.
CropAndFilter ==
    /\ pc = "crop"
    /\ LET win == <<end[1] - start[1], end[2] - start[2]>>
           sc == CropScale(win)
           rs == Resized(win, sc)
           kept == Kept(data, Rev(start), Rev(end))
       IN  /\ scale' = sc
           /\ IF rs[1] <= 0 \/ rs[2] <= 0
              THEN /\ Raise("cv2.error")
                   /\ UNCHANGED data
              ELSE IF kept # {} /\ "texts" \notin data.keys
              THEN /\ Raise("KeyError")
                   /\ data' = [data EXCEPT !.image = rs]
              ELSE /\ data' = [data EXCEPT
                        !.image = rs,
                        !.polys = Pick([i \in DOMAIN data.polys |->
                                         MovePoly(data.polys[i], data.den,
                                                  Rev(start), sc)], kept, 1),
                        !.den = data.den * sc[2],
                        !.texts = Pick(data.texts, kept, 1),
                        !.ignore_tags = Pick(data.ignore_tags, kept, 1),
                        !.keys = data.keys \cup {"texts"}]
                   /\ pc' = IF is_out_bounds THEN "repair" ELSE "pad"
                   /\ UNCHANGED err
    /\ UNCHANGED <<input, start, end, is_out_bounds, ret, tries, y, x, repaired,
                   new_size, target_size>>

(* -------------------- RandomCropWithBBox.hand_bounds ------------------ *)
\* The polygons are axis-aligned rectangles, so is the intersection with the
\* rectangle [0, w] x [0, h]: per axis the span <<lo, hi>> over den.
InterSpan(pts, ax, den, n) ==
    <<Max2(PolyMin(pts, ax), 0), Min2(PolyMax(pts, ax), n * den)>>

\* crop_polys.intersects(poly): the closed rectangles share a point.
Intersects(pts, den, w, h) ==
    /\ PolyMin(pts, 1) <= w * den /\ PolyMax(pts, 1) >= 0
    /\ PolyMin(pts, 2) <= h * den /\ PolyMax(pts, 2) >= 0

\* inter_poly.area >= thresh_area, the area over den * den
AreaAtLeast(pts, den, w, h, thresh) ==
    LET xs == InterSpan(pts, 1, den, w)
        ys == InterSpan(pts, 2, den, h)
    IN  (xs[2] - xs[1]) * (ys[2] - ys[1]) >= thresh * den * den

IntersectionNoClip(pts, den, w, h) == pts

\* polygon2numpy(crop_polys.intersection(poly)): the exterior vertices
\* without the closing one (listed here in Rect's order).
Intersection(pts, den, w, h) ==
    Rect(InterSpan(pts, 1, den, w), InterSpan(pts, 2, den, h))

\* The indices hand_bounds keeps.
Repaired(d, thresh) ==
    {i \in 1..ZipLen(d.polys, d.ignore_tags) :
        /\ Intersects(d.polys[i].pts, d.den, d.image[2], d.image[1])
        /\ AreaAtLeast(d.polys[i].pts, d.den, d.image[2], d.image[1], thresh)}

\* Lines 258-259 and 273-293: polys and ignore_tags are rebuilt, texts is not.
HandBounds ==
    /\ pc = "repair"
    /\ LET keep == Repaired(data, ThreshArea)
       IN  data' = [data EXCEPT
               !.polys = Pick([i \in DOMAIN data.polys |->
                                [data.polys[i] EXCEPT !.pts =
                                    Intersection(data.polys[i].pts, data.den,
                                                 data.image[2], data.image[1])]],
                              keep, 1),
               !.ignore_tags = Pick(data.ignore_tags, keep, 1)]
    /\ repaired' = TRUE
    /\ pc' = "pad"
    /\ UNCHANGED <<input, err, start, end, is_out_bounds, ret, tries, y, x,
                   scale, new_size, target_size>>

\* Lines 260-264: np.pad up to crop_size (a negative amount raises).
PadImage ==
    /\ pc = "pad"
    /\ IF CropH - data.image[1] < 0 \/ CropW - data.image[2] < 0
       THEN /\ Raise("ValueError")
            /\ UNCHANGED data
       ELSE /\ data' = [data EXCEPT !.image = <<CropH, CropW>>]
            /\ pc' = "done"
            /\ UNCHANGED err
    /\ UNCHANGED <<input, start, end, is_out_bounds, ret, tries, y, x, scale,
                   repaired, new_size, target_size>>

(* ----------------------- ScalePadImage.__call__ ----------------------- *)
PadScaleMax(target, size) ==
    IF target[1] * size[2] >= target[2] * size[1] THEN <<target[1], size[1]>>
                                                   ELSE <<target[2], size[2]>>

\* scale = min(self._target_size / size)
PadScale(target, size) ==
    IF target[1] * size[2] <= target[2] * size[1] THEN <<target[1], size[1]>>
                                                   ELSE <<target[2], size[2]>>

\* new_size = np.round(scale * size).astype(np.int)
NewSize(size, sc) ==
    <<Round(size[1] * sc[1], sc[2]), Round(size[2] * sc[1], sc[2])>>

\* data['polys'] *= scale, the result over the denominator den * sc[2]
ScalePolys(polys, sc) ==
    [i \in DOMAIN polys |->
        [polys[i] EXCEPT !.pts = [j \in DOMAIN polys[i].pts |->
            <<polys[i].pts[j][1] * sc[1], polys[i].pts[j][2] * sc[1]>>]]]

\* data['image'] raises KeyError.
ScalePadKeyError ==
    /\ pc = "start"
    /\ "image" \notin data.keys
    /\ Raise("KeyError")
    /\ UNCHANGED <<data, input, start, end, is_out_bounds, ret, tries, y, x,
                   scale, repaired, new_size, target_size>>

\* cv2.resize refuses a size with a zero side.
ScalePadResizeError ==
    /\ pc = "start"
    /\ "image" \in data.keys
    /\ LET sc == PadScale(target_size, data.image)
           ns == NewSize(data.image, sc)
       IN  /\ ns[1] <= 0 \/ ns[2] <= 0
           /\ scale' = sc
           /\ new_size' = ns
    /\ Raise("cv2.error")
    /\ UNCHANGED <<data, input, start, end, is_out_bounds, ret, tries, y, x,
                   repaired, target_size>>

\* Lines 154-166: resize, pad, scale the polygons, record the shape.
ScalePadCall ==
    /\ pc = "start"
    /\ "image" \in data.keys
    /\ LET sc == PadScale(target_size, data.image)
           ns == NewSize(data.image, sc)
       IN  /\ ns[1] > 0 /\ ns[2] > 0
           /\ scale' = sc
           /\ new_size' = ns
           /\ IF target_size[1] - ns[1] < 0 \/ target_size[2] - ns[2] < 0
              THEN /\ Raise("ValueError")
                   /\ data' = [data EXCEPT !.image = ns]
              ELSE /\ data' = [data EXCEPT
                        !.image = target_size,
                        !.polys = IF "polys" \in data.keys
                                  THEN ScalePolys(data.polys, sc) ELSE @,
                        !.den = IF "polys" \in data.keys
                                THEN data.den * sc[2] ELSE @,
                        !.shape = <<data.image[1], data.image[2], sc, sc>>,
                        !.keys = data.keys \cup {"shape"}]
                   /\ pc' = "done"
                   /\ UNCHANGED err
    /\ UNCHANGED <<input, start, end, is_out_bounds, ret, tries, y, x, repaired,
                   target_size>>

(* --------------------------- input records ---------------------------- *)
\* Image shapes <<h, w>> given to the crop.
CropImages ==
    {<<MaxSize, MaxSize>>, <<MaxSize - 1, MaxSize>>, <<MaxSize, MaxSize - 1>>}

\* Spans <<lo, hi>> in half pixels along an axis of n pixels.  On x: two
\* narrow spans inside the image, one from 0 to the edge n, one from below 0
\* to the last pixel.  On y: a narrow span, one over the pixels 0..2, one
\* over every pixel, one ending beyond the edge.
XSpans(n) == {<<4, 5>>, <<0, 1>>, <<0, 2 * n>>, <<-1, 2 * n - 2>>}

YSpans(n) == {<<4, 5>>, <<1, 3>>, <<0, 2 * n - 2>>, <<2 * n - 3, 2 * n + 1>>}

\* A non-ignored instance takes any pair of spans; an ignored one is the
\* rectangle from 0 to the edge over every row, or the one from below 0 to
\* beyond the last row.
Instances(size) ==
    ((XSpans(size[2]) \X YSpans(size[1])) \X {FALSE})
    \cup {<<<<<<0, 2 * size[2]>>, <<0, 2 * size[1] - 2>>>>, TRUE>>,
           <<<<<<-1, 2 * size[2] - 2>>,
               <<2 * size[1] - 3, 2 * size[1] + 1>>>>, TRUE>>}

\* One key missing is tried on records of at most one polygon.
KeySets(n) ==
    IF n <= 1 THEN {AllKeys} \cup {AllKeys \ {k} : k \in AllKeys}
              ELSE {AllKeys}

\* The dict built from the instances f[1..n]; a missing key has no value.
Record(size, f, keys) ==
    [keys |-> keys,
     image |-> IF "image" \in keys THEN size ELSE <<0, 0>>,
     polys |-> IF "polys" \in keys
               THEN [i \in DOMAIN f |->
                        [id |-> i, pts |-> Rect(f[i][1][1], f[i][1][2])]]
               ELSE <<>>,
     den |-> 2,
     texts |-> IF "texts" \in keys THEN [i \in DOMAIN f |-> i] ELSE <<>>,
     ignore_tags |-> IF "ignore_tags" \in keys
                     THEN [i \in DOMAIN f |-> f[i][2]] ELSE <<>>,
     shape |-> <<>>]

\* Scenario B of the specification: a 100 x 200 image with one polygon
\* spanning x from 0 to 200 (and the same polygon ending at x = 199).
ScenarioB(xmax) ==
    [keys |-> AllKeys,
     image |-> <<100, 200>>,
     polys |-> <<[id |-> 1, pts |-> Rect(<<0, 2 * xmax>>, <<20, 80>>)]>>,
     den |-> 2,
     texts |-> <<1>>,
     ignore_tags |-> <<FALSE>>,
     shape |-> <<>>]

\* An image so flat that its resized height rounds to 0, without polygons.
Sliver == Record(<<1, 2 * CropW>>, <<>>, AllKeys)

Idle ==
    /\ pc = "start"
    /\ err = "none"
    /\ start = <<0, 0>>
    /\ end = <<0, 0>>
    /\ is_out_bounds = FALSE
    /\ ret = "none"
    /\ tries = 0
    /\ y = <<0, 0>>
    /\ x = <<0, 0>>
    /\ scale = <<1, 1>>
    /\ repaired = FALSE
    /\ new_size = <<0, 0>>

Init ==
    /\ \/ data \in {ScenarioB(200), ScenarioB(199), Sliver}
       \/ \E size \in CropImages, n \in 0..MaxPolys :
             \E f \in [1..n -> Instances(size)], keys \in KeySets(n) :
                 data = Record(size, f, keys)
    /\ input = data
    /\ target_size = <<CropH, CropW>>
    /\ Idle

Next ==
    \/ FindCropKeyError
    \/ FindCropOutOfBounds
    \/ FindCropEnterSearch
    \/ FindCropNoSearch
    \/ DrawCandidate
    \/ TestCandidate
    \/ SearchExhausted
    \/ CropAndFilter
    \/ HandBounds
    \/ PadImage

Spec == Init /\ [][Next]_vars

\* Images and targets given to ScalePadImage, Scenario D among them.
ScaleRecords ==
    {Record(size, f, keys) :
        size \in (1..MaxSize) \X (1..MaxSize),
        f \in {<<>>, <<<<<<<<0, 1>>, <<0, 2>>>>, FALSE>>>>},
        keys \in {AllKeys, AllKeys \ {"polys"}, AllKeys \ {"image"}}}
    \cup {Record(<<480, 320>>, <<>>, AllKeys)}

InitScale ==
    /\ data \in ScaleRecords
    /\ input = data
    /\ \E s \in (1..MaxTarget) \cup {640} : target_size = <<s, s>>
    /\ Idle

NextScale ==
    \/ ScalePadKeyError
    \/ ScalePadResizeError
    \/ ScalePadCall

SpecScale == InitScale /\ [][NextScale]_vars

(* ======================= properties of the claims ====================== *)
Abs(a) == IF a >= 0 THEN a ELSE -a

\* n is p/q rounded to the nearest integer, a tie going to the even one.
IsRounded(n, p, q) ==
    /\ 2 * Abs(n * q - p) <= q
    /\ 2 * Abs(n * q - p) = q => n % 2 = 0

\* sc = min(t[1] / size[1], t[2] / size[2])
IsMinRatio(sc, t, size) ==
    /\ sc[1] * size[1] <= t[1] * sc[2]
    /\ sc[1] * size[2] <= t[2] * sc[2]
    /\ sc[1] * size[1] = t[1] * sc[2] \/ sc[1] * size[2] = t[2] * sc[2]

\* The record holds what _find_crop reads.
Searchable(d) == {"image", "polys", "ignore_tags"} \subseteq d.keys

Complete(d) == d.keys = AllKeys

\* Pixel index of a coordinate: rounded, not below 0.
Pixel(c, den) == IF Round(c, den) < 0 THEN 0 ELSE Round(c, den)

\* Row i (column i) lies in the pixel span of a non-ignored polygon.
RowCovered(d, i) ==
    \E j \in 1..Len(d.polys) :
        /\ ~d.ignore_tags[j]
        /\ Pixel(PolyMin(d.polys[j].pts, 2), d.den) <= i
        /\ i <= Pixel(PolyMax(d.polys[j].pts, 2), d.den)

ColCovered(d, i) ==
    \E j \in 1..Len(d.polys) :
        /\ ~d.ignore_tags[j]
        /\ Pixel(PolyMin(d.polys[j].pts, 1), d.den) <= i
        /\ i <= Pixel(PolyMax(d.polys[j].pts, 1), d.den)

FreeRows(d) == {i \in 0..(d.image[1] - 1) : ~RowCovered(d, i)}

FreeCols(d) == {i \in 0..(d.image[2] - 1) : ~ColCovered(d, i)}

\* Some non-ignored polygon's pixel box ends beyond the last row or column.
ExceedsUpper(d) ==
    \E j \in 1..Len(d.polys) :
        /\ ~d.ignore_tags[j]
        /\ \/ Pixel(PolyMax(d.polys[j].pts, 1), d.den) >= d.image[2]
           \/ Pixel(PolyMax(d.polys[j].pts, 2), d.den) >= d.image[1]

FullWindow == start = <<0, 0>> /\ end = input.image

\* Every vertex of pts (over den) lies in [0, w] x [0, h].
VerticesWithin(pts, den, w, h) ==
    \A i \in DOMAIN pts :
        /\ 0 <= pts[i][1] /\ pts[i][1] <= w * den
        /\ 0 <= pts[i][2] /\ pts[i][2] <= h * den

(* C1: after the crop stage the three sequences have one length, and index
   i of each refers to the same instance of the input (a polygon carries the
   input index, a text is the input index, a tag is that instance's tag).   *)
C1_Alignment ==
    (Complete(input) /\ pc = "done") =>
        /\ Len(data.polys) = Len(data.texts)
        /\ Len(data.texts) = Len(data.ignore_tags)
        /\ \A i \in 1..Len(data.polys) :
              /\ data.texts[i] = data.polys[i].id
              /\ data.ignore_tags[i] = input.ignore_tags[data.polys[i].id]

(* C2: every vertex of every polygon the crop stage returns lies within
   [0, crop_size_w] x [0, crop_size_h].                                      *)
C2_Containment ==
    (Complete(input) /\ pc = "done") =>
        \A i \in 1..Len(data.polys) :
            VerticesWithin(data.polys[i].pts, data.den, CropW, CropH)

(* C3: when the call fails on a record lacking one of image, polys, texts,
   ignore_tags, no field of the record has been modified by the stage (the
   image is not already cropped and resized when texts is found missing).    *)
C3_FailFast ==
    (~Complete(input) /\ pc = "error") => data = input

(* C4 as stated: with polys absent or empty (the other fields present) the
   call returns the full image scaled and padded to crop_size, and no window
   is drawn.                                                                 *)
C4_Original ==
    ( /\ pc \in {"done", "error"}
      /\ {"image", "texts", "ignore_tags"} \subseteq input.keys
      /\ "polys" \notin input.keys \/ input.polys = <<>> ) =>
        /\ pc = "done"
        /\ tries = 0
        /\ FullWindow
        /\ data.image = <<CropH, CropW>>

(* C4 amended: with polys present and empty (image and ignore_tags present)
   _find_crop returns the full image without drawing a window, the image is
   scaled by min(crop_size / size) and padded to crop_size, the only failure
   being a resize to a zero side; with polys absent the call raises KeyError
   in _find_crop and leaves the record as it was.                            *)
C4_NoAnnotations ==
    /\ ( /\ Searchable(input)
         /\ input.polys = <<>> ) =>
           /\ tries = 0
           /\ pc \notin {"search", "drawn"}
           /\ pc = "error" => err = "cv2.error"
           /\ pc \notin {"start", "error"} =>
                 FullWindow /\ ret = "fallback" /\ ~is_out_bounds /\ ~repaired
           /\ pc = "pad" =>
                 /\ IsMinRatio(scale, <<CropH, CropW>>, input.image)
                 /\ IsRounded(data.image[1], input.image[1] * scale[1], scale[2])
                 /\ IsRounded(data.image[2], input.image[2] * scale[1], scale[2])
           /\ pc = "done" => data.image = <<CropH, CropW>> /\ data.polys = <<>>
    /\ "polys" \notin input.keys =>
           /\ pc \in {"start", "error"}
           /\ pc = "error" => err = "KeyError"
           /\ data = input
           /\ tries = 0

C4_Witness ==
    /\ pc = "done"
    /\ Searchable(input)
    /\ input.polys = <<>>
    /\ input.image # <<CropH, CropW>>
    /\ data.image = <<CropH, CropW>>

(* C5: the crop is resized with one scale = min(crop_size / window size),
   its rounded sides never exceed crop_size, the padding never fails, and
   the image returned has exactly the shape crop_size.                       *)
C5_ExactOutputSize ==
    /\ err # "ValueError"
    /\ pc \in {"repair", "pad"} =>
          LET win == <<end[1] - start[1], end[2] - start[2]>>
          IN  /\ IsMinRatio(scale, <<CropH, CropW>>, win)
              /\ IsRounded(data.image[1], win[1] * scale[1], scale[2])
              /\ IsRounded(data.image[2], win[2] * scale[1], scale[2])
              /\ data.image[1] <= CropH
              /\ data.image[2] <= CropW
    /\ pc = "done" => data.image = <<CropH, CropW>>

C5_Witness ==
    /\ pc = "done"
    /\ ret = "found"
    /\ end[1] - start[1] # end[2] - start[2]
    /\ data.image = <<CropH, CropW>>

(* C7: a window accepted by the search leaves every non-ignored polygon
   either entirely inside it or not overlapping it, and no non-ignored
   polygon returned is cut by the window.                                    *)
C7_NoSeveredText ==
    ret = "found" =>
        /\ \A j \in 1..Len(input.polys) :
              ~input.ignore_tags[j] =>
                 LET pts == input.polys[j].pts
                     den == input.den
                 IN  \/ /\ PolyMin(pts, 1) >= start[2] * den
                        /\ PolyMax(pts, 1) <= end[2] * den
                        /\ PolyMin(pts, 2) >= start[1] * den
                        /\ PolyMax(pts, 2) <= end[1] * den
                     \/ PolyMax(pts, 1) <= start[2] * den
                     \/ PolyMin(pts, 1) >= end[2] * den
                     \/ PolyMax(pts, 2) <= start[1] * den
                     \/ PolyMin(pts, 2) >= end[1] * den
        /\ pc = "done" =>
              \A i \in 1..Len(data.polys) :
                  ~data.ignore_tags[i] =>
                      \A k \in DOMAIN data.polys[i].pts :
                          LET p == data.polys[i].pts[k]
                          IN  /\ 0 <= p[1]
                              /\ p[1] <= (end[2] - start[2]) * scale[1] * input.den
                              /\ 0 <= p[2]
                              /\ p[2] <= (end[1] - start[1]) * scale[1] * input.den

C7_Witness ==
    /\ ret = "found"
    /\ pc = "done"
    /\ \E j \in 1..Len(input.polys) :
          /\ ~input.ignore_tags[j]
          /\ PolyMax(input.polys[j].pts, 1) <= start[2] * input.den
    /\ \E i \in 1..Len(data.polys) : ~data.ignore_tags[i]

\* ScalePadImage computed scale and new_size as the specification says.
ScaleAndSizeRight ==
    /\ IsMinRatio(scale, target_size, input.image)
    /\ IsRounded(new_size[1], input.image[1] * scale[1], scale[2])
    /\ IsRounded(new_size[2], input.image[2] * scale[1], scale[2])
    /\ new_size[1] <= target_size[1]
    /\ new_size[2] <= target_size[2]

ScalePadOutput ==
    /\ pc = "done"
    /\ data.image = target_size
    /\ data.shape = <<input.image[1], input.image[2], scale, scale>>

(* C6 as stated: for every image [H, W] and target [S, S], scale is
   min(S/H, S/W), the resized sides are round(scale*H) and round(scale*W),
   both positive and not larger than the target, the output has exactly the
   target shape and shape records [H, W, scale, scale].                      *)
C6_Original ==
    (pc # "start" /\ "image" \in input.keys) =>
        /\ ScaleAndSizeRight
        /\ new_size[1] > 0
        /\ new_size[2] > 0
        /\ ScalePadOutput

(* C6 amended: scale is min(S/H, S/W) and the resized sides are
   round(scale*H) and round(scale*W), not negative and not larger than the
   target; when both are positive the output has exactly the target shape
   and shape records [H, W, scale, scale]; when one rounds to 0 the resize
   fails and the record is left as it was.  480 x 320 with target 640 gives
   640 x 427 and an output of 640 x 640.                                     *)
C6_ScalePad ==
    (pc # "start" /\ "image" \in input.keys) =>
        /\ ScaleAndSizeRight
        /\ new_size[1] >= 0
        /\ new_size[2] >= 0
        /\ (new_size[1] > 0 /\ new_size[2] > 0) => ScalePadOutput
        /\ (new_size[1] = 0 \/ new_size[2] = 0) =>
              pc = "error" /\ err = "cv2.error" /\ data = input
        /\ (input.image = <<480, 320>> /\ target_size = <<640, 640>>) =>
              new_size = <<640, 427>> /\ scale[1] * 3 = scale[2] * 4

C6_Witness ==
    /\ pc = "done"
    /\ input.image = <<480, 320>>
    /\ target_size = <<640, 640>>
    /\ new_size = <<640, 427>>
    /\ data.image = <<640, 640>>

\* The span of instance j of the input along axis ax after the move to the
\* full-image crop, cut to [0, n], over the denominator data.den.
CutSpan(j, ax, n) ==
    <<Max2(PolyMin(input.polys[j].pts, ax) * scale[1], 0),
      Min2(PolyMax(input.polys[j].pts, ax) * scale[1], n * data.den)>>

\* Instance j overlaps the full image and its part inside the w x h crop
\* has an area of at least ThreshArea.
SurvivesRepair(j, w, h) ==
    /\ PolyMax(input.polys[j].pts, 1) > 0
    /\ PolyMax(input.polys[j].pts, 2) > 0
    /\ PolyMin(input.polys[j].pts, 1) < input.image[2] * input.den
    /\ PolyMin(input.polys[j].pts, 2) < input.image[1] * input.den
    /\ CutSpan(j, 1, w)[2] > CutSpan(j, 1, w)[1]
    /\ CutSpan(j, 2, h)[2] > CutSpan(j, 2, h)[1]
    /\ (CutSpan(j, 1, w)[2] - CutSpan(j, 1, w)[1])
         * (CutSpan(j, 2, h)[2] - CutSpan(j, 2, h)[1])
       >= ThreshArea * data.den * data.den

\* After hand_bounds: the polygons are, in order, the surviving instances,
\* each the rectangle cut to the crop, with its own tag.
RepairDone(w, h) ==
    /\ \A j \in 1..Len(input.polys) :
          SurvivesRepair(j, w, h) <=>
              \E i \in 1..Len(data.polys) : data.polys[i].id = j
    /\ \A i, k \in 1..Len(data.polys) :
          i < k => data.polys[i].id < data.polys[k].id
    /\ Len(data.ignore_tags) = Len(data.polys)
    /\ \A i \in 1..Len(data.polys) :
          LET j == data.polys[i].id
              pts == data.polys[i].pts
          IN  /\ data.ignore_tags[i] = input.ignore_tags[j]
              /\ {pts[k] : k \in DOMAIN pts} =
                    {<<a, b>> : a \in {CutSpan(j, 1, w)[1], CutSpan(j, 1, w)[2]},
                                b \in {CutSpan(j, 2, h)[1], CutSpan(j, 2, h)[2]}}

(* C8: when a non-ignored polygon's pixel box exceeds the upper bound of
   the image on either axis, _find_crop returns the full image with
   out_of_bounds set and draws no window, and boundary repair runs: each
   retained polygon becomes its intersection with the crop rectangle when
   the area is at least 8 and is discarded otherwise; when no non-ignored
   polygon exceeds the bound, out_of_bounds is false and no repair runs.     *)
C8_OutOfBoundsPath ==
    (Searchable(input) /\ pc # "start") =>
        /\ ExceedsUpper(input) =>
              /\ is_out_bounds
              /\ ret = "out_of_bounds"
              /\ tries = 0
              /\ FullWindow
              /\ pc \in {"pad", "done"} => repaired
              /\ pc = "pad" => RepairDone(data.image[2], data.image[1])
        /\ ~ExceedsUpper(input) =>
              ~is_out_bounds /\ ~repaired /\ pc # "repair"

C8_Witness ==
    /\ pc = "pad"
    /\ repaired
    /\ Len(input.polys) = 2
    /\ Len(data.polys) = 1
    /\ \E k \in DOMAIN input.polys[data.polys[1].id].pts :
          data.polys[1].pts[k] #
              <<input.polys[data.polys[1].id].pts[k][1] * scale[1],
                input.polys[data.polys[1].id].pts[k][2] * scale[1]>>

\* An axis has no free position.
NoFreeBand(d) == FreeRows(d) = {} \/ FreeCols(d) = {}

\* With no free band the full image is returned and no window is drawn.
NoFreeBandRule ==
    (Searchable(input) /\ pc # "start" /\ NoFreeBand(input)) =>
        /\ pc \notin {"search", "drawn"}
        /\ tries = 0
        /\ FullWindow

(* C9 as stated: with no free band on an axis the full image is returned
   without a draw; for Scenario B (100 x 200, a non-ignored polygon spanning
   x from 0 to 200) this is the no-free-band return, out_of_bounds not
   being signalled.                                                          *)
C9_Original ==
    /\ NoFreeBandRule
    /\ (input = ScenarioB(200) /\ pc # "start") =>
          ret = "fallback" /\ ~is_out_bounds

(* C9 amended: with no free band on an axis the full image is returned
   without a draw, by the last return of _find_crop (out_of_bounds false)
   when no non-ignored polygon exceeds the upper bound; a polygon spanning x
   from 0 to 199 of a 100 x 200 image is that case, while one spanning x
   from 0 to 200 (Scenario B) has x_max = 201 > 200 and takes the
   out-of-bounds return.                                                     *)
C9_NoFreeBand ==
    /\ NoFreeBandRule
    /\ (Searchable(input) /\ pc # "start" /\ NoFreeBand(input)
           /\ ~ExceedsUpper(input)) =>
          ret = "fallback" /\ ~is_out_bounds
    /\ (input = ScenarioB(199) /\ pc # "start") =>
          ret = "fallback" /\ ~is_out_bounds /\ tries = 0 /\ FullWindow
    /\ (input = ScenarioB(200) /\ pc # "start") =>
          ret = "out_of_bounds" /\ is_out_bounds /\ tries = 0 /\ FullWindow

C9_Witness ==
    /\ pc = "done"
    /\ input = ScenarioB(199)
    /\ FreeCols(input) = {}
    /\ FreeRows(input) # {}
    /\ ret = "fallback"

(* C10 as stated: in every attempt the two height indices are distinct and
   the two width indices are distinct, so y0 < y1 and x0 < x1.               *)
C10_Original ==
    pc = "drawn" => (y[1] < y[2] /\ x[1] < x[2])

(* C10 amended: the two indices of an axis are drawn from its free
   positions with replacement and sorted, so y0 <= y1 and x0 <= x1 and they
   may coincide; a window accepted by the search has y0 < y1 and x0 < x1.    *)
C10_Sampling ==
    (pc = "drawn" \/ ret = "found") =>
        /\ tries > 0
        /\ y[1] <= y[2]
        /\ x[1] <= x[2]
        /\ {y[1], y[2]} \subseteq FreeRows(input)
        /\ {x[1], x[2]} \subseteq FreeCols(input)
        /\ ret = "found" =>
              /\ start = <<y[1], x[1]>>
              /\ end = <<y[2], x[2]>>
              /\ y[1] < y[2]
              /\ x[1] < x[2]

C10_Witness ==
    /\ pc = "drawn"
    /\ Cardinality(FreeRows(input)) = 1
    /\ y[1] = y[2]
    /\ x[1] < x[2]
====
